---------------------------- MODULE Spec2Model ----------------------------
(***************************************************************************)
(* A model of morse-chat's backend: the WebSocket frame codec              *)
(* (websockets/src/frame.rs), the message reassembler and the connection   *)
(* actor (websockets/src/lib.rs), and the room registry with its broadcast *)
(* scheduler (src/main.rs).                                                *)
(*                                                                         *)
(* The specifications share the variables and the actions:                 *)
(*   SpecRead   one WebSocket, the frames its peer sends, and a client     *)
(*              that polls;                                                *)
(*   SpecActor  one WebSocket and a client of its whole public API         *)
(*              (poll_next_message, try_send, shutdown);                   *)
(*   Spec       the relay: the accept loop's requests, the rooms and the   *)
(*              scheduler task over several WebSockets;                    *)
(*   SpecFlood  the relay with one peer that floods and one that stalls;   *)
(*   SpecRooms  the registry: rooms made by GET /api/gen-room, joined by   *)
(*              requests of every shape, emptied and removed;              *)
(*   SpecCapacity  the registry filled up to MAX_ROOM_NUMBER;              *)
(*   SpecIsolation  the relay over two rooms;                              *)
(*   SpecOrder  the relay of messages that tell their sender and number;   *)
(*   SpecCodec  the codec on its own, applied to frames, payloads and      *)
(*              messages.                                                  *)
(* FairActor and FairFlood add the fairness of tokio's scheduling.         *)
(***************************************************************************)
EXTENDS Integers, Sequences, FiniteSets, TLC

(***************************************************************************)
(* Bounds of the model (not program constants).                            *)
(***************************************************************************)
\* connections the accept loop may turn into WebSockets
MaxConns == 4
\* frames the peer of SpecRead and of SpecActor may put on the wire
MaxFrames == 3
\* messages the client of SpecActor may hand to try_send
MaxSends == 1
\* what the environment of Spec may do: requests, frames and faults together
MaxEvents == 5
\* what the environment of SpecFlood may do: joins and frames together
MaxFlood == 14
\* what the environment of SpecRooms may do: requests and frames together
MaxRoomEvents == 5
\* what the environment of SpecCapacity may do: requests and frames together
MaxCapacityEvents == 21
\* what the environment of SpecIsolation may do: requests and frames together
MaxIsolationEvents == 6
\* what the environment of SpecOrder may do: requests and frames together
MaxOrderEvents == 6

(***************************************************************************)
(* Program constants.                                                      *)
(***************************************************************************)
CMD_CHANNEL_BUF_SIZE == 10
CHUNK_SIZE == 1024
EXT16_CEILING == 32767
MAX_ROOM_NUMBER == 20

(***************************************************************************)
(* Option<T>, bytes.                                                       *)
(***************************************************************************)
None == << >>
Some(x) == << x >>
IsSome(o) == o # << >>
Unwrap(o) == o[1]

Min(a, b) == IF a <= b THEN a ELSE b

\* "let x = e in F(x)" with e evaluated once, as the program evaluates it
Bind(e, F(_)) == CHOOSE y \in { F(x) : x \in {e} } : TRUE

\* n >> (8 * k)
RECURSIVE Shr8(_, _)
Shr8(n, k) == IF k = 0 THEN n ELSE Shr8(n \div 256, k - 1)

\* bit k (a power of two) of a ^ b
XorBit(a, b, k) == ((((a \div k) % 2) + ((b \div k) % 2)) % 2) * k

\* u8 ^ u8
Xor8(a, b) ==
    XorBit(a, b, 1) + XorBit(a, b, 2) + XorBit(a, b, 4) + XorBit(a, b, 8)
    + XorBit(a, b, 16) + XorBit(a, b, 32) + XorBit(a, b, 64) + XorBit(a, b, 128)

\* n.to_be_bytes() on k bytes
ToBeBytes(n, k) == [i \in 1..k |-> Shr8(n, k - i) % 256]

RECURSIVE FromBeBytes(_)
FromBeBytes(bs) ==
    IF bs = << >> THEN 0
    ELSE bs[Len(bs)] + 256 * FromBeBytes(SubSeq(bs, 1, Len(bs) - 1))

Take(s, n) == SubSeq(s, 1, Min(n, Len(s)))
Drop(s, n) == SubSeq(s, Min(n, Len(s)) + 1, Len(s))

(***************************************************************************)
(* frame.rs: OpCode.                                                       *)
(***************************************************************************)
OpUnit(tag) == [tag |-> tag, c |-> 0]
Continuation == OpUnit("Continuation")
Text == OpUnit("Text")
Binary == OpUnit("Binary")
Close == OpUnit("Close")
Ping == OpUnit("Ping")
Pong == OpUnit("Pong")
NonControlReserved(n) == [tag |-> "NonControlReserved", c |-> n]
ControlReserved(n) == [tag |-> "ControlReserved", c |-> n]

is_control(op) == op.tag \in {"Close", "Ping", "Pong", "ControlReserved"}
is_non_control(op) == ~is_control(op)

\* impl TryFrom<u8> for OpCode
OpCode_try_from(n) ==
    CASE n = 0 -> [ok |-> TRUE, v |-> Continuation]
      [] n = 1 -> [ok |-> TRUE, v |-> Text]
      [] n = 2 -> [ok |-> TRUE, v |-> Binary]
      [] n = 8 -> [ok |-> TRUE, v |-> Close]
      [] n = 9 -> [ok |-> TRUE, v |-> Ping]
      [] n = 10 -> [ok |-> TRUE, v |-> Pong]
      [] 3 <= n /\ n <= 7 -> [ok |-> TRUE, v |-> NonControlReserved(n)]
      [] 11 <= n /\ n <= 15 -> [ok |-> TRUE, v |-> ControlReserved(n)]
      [] OTHER -> [ok |-> FALSE, v |-> Continuation]

\* a variant of OpCode_into: a reserved opcode loses its number
OpCode_into_first(op) ==
    CASE op.tag = "Continuation" -> 0
      [] op.tag = "Text" -> 1
      [] op.tag = "Binary" -> 2
      [] op.tag = "NonControlReserved" -> 3
      [] op.tag = "Close" -> 8
      [] op.tag = "Ping" -> 9
      [] op.tag = "Pong" -> 10
      [] op.tag = "ControlReserved" -> 11

\* impl Into<u8> for OpCode
OpCode_into(op) ==
    CASE op.tag = "Continuation" -> 0
      [] op.tag = "Text" -> 1
      [] op.tag = "Binary" -> 2
      [] op.tag = "NonControlReserved" -> op.c
      [] op.tag = "Close" -> 8
      [] op.tag = "Ping" -> 9
      [] op.tag = "Pong" -> 10
      [] op.tag = "ControlReserved" -> op.c

(***************************************************************************)
(* frame.rs: Frame, demask, write_to, try_parse_from.                      *)
(***************************************************************************)
Frame(fin, op, mask, payload) ==
    [is_final |-> fin, opcode |-> op, mask |-> mask, payload |-> payload]

\* a variant of demask: the payload is left as it is
demask_skipped(data, mask) == data

\* a variant of demask: the key is not cycled
demask_first_byte(data, mask) ==
    [i \in 1..Len(data) |-> Xor8(data[i], mask[1])] \o << >>

\* XOR of payload byte i (from 0) with mask[i mod 4]
demask(data, mask) ==
    [i \in 1..Len(data) |-> Xor8(data[i], mask[((i - 1) % 4) + 1])] \o << >>

\* The bytes Frame::write_to hands to a writer that accepts every write.
write_to(f) ==
    LET first == (IF f.is_final THEN 128 ELSE 0) + OpCode_into(f.opcode)
        is_masked == IF IsSome(f.mask) THEN 128 ELSE 0
        actual_len == Len(f.payload)
        len_bytes ==
            IF actual_len < 126 THEN << actual_len + is_masked >>
            ELSE IF 126 <= actual_len /\ actual_len <= EXT16_CEILING
                 THEN << 126 + is_masked >> \o ToBeBytes(actual_len % 65536, 2)
                 ELSE << 127 + is_masked >> \o ToBeBytes(actual_len, 8)
        mask_bytes == IF IsSome(f.mask) THEN Unwrap(f.mask) ELSE << >>
    IN  << first >> \o len_bytes \o mask_bytes \o f.payload

\* AsyncReadExt::read into a zeroed buffer of n bytes from a source that
\* holds src and then ends: the bytes present are copied, the rest of the
\* buffer keeps its zeroes, and no error is reported for a short read.
ReadBuf(src, n) ==
    [buf |-> [i \in 1..n |-> IF i <= Len(src) THEN src[i] ELSE 0] \o << >>,
     rest |-> Drop(src, n)]

\* Frame::try_parse_from on a reader holding src; io_ok = FALSE is a reader
\* whose read reports an I/O error.
try_parse_from(src, io_ok) ==
    IF ~io_ok
    THEN [ok |-> FALSE, frame |-> Frame(FALSE, Continuation, None, << >>)]
    ELSE
    Bind(ReadBuf(src, 2), LAMBDA r1 :
    LET first_two == r1.buf
        is_final == (first_two[1] \div 128) # 0
        opcode == OpCode_try_from(first_two[1] % 16)
        is_masked == (first_two[2] \div 128) # 0
        sel == first_two[2] % 128
    IN
    Bind(IF sel = 126 THEN ReadBuf(r1.rest, 2)
         ELSE IF sel = 127 THEN ReadBuf(r1.rest, 8)
         ELSE [buf |-> << >>, rest |-> r1.rest], LAMBDA r2 :
    LET payload_len == IF sel \in {126, 127} THEN FromBeBytes(r2.buf) ELSE sel
    IN
    Bind(IF is_masked THEN ReadBuf(r2.rest, 4)
         ELSE [buf |-> << >>, rest |-> r2.rest], LAMBDA r3 :
    LET mask == IF is_masked THEN Some(r3.buf) ELSE None
        payload == ReadBuf(r3.rest, payload_len).buf
    IN  IF ~opcode.ok
        THEN [ok |-> FALSE, frame |-> Frame(FALSE, Continuation, None, << >>)]
        ELSE [ok |-> TRUE, frame |-> Frame(is_final, opcode.v, mask, payload)])))

(***************************************************************************)
(* lib.rs: Message, MessageError, String::from_utf8_lossy.                 *)
(***************************************************************************)
\* A Text message holds the UTF-8 bytes of its String.
MsgText(bytes) == [kind |-> "Text", data |-> bytes]
MsgBinary(bytes) == [kind |-> "Binary", data |-> bytes]
NoMsg == [kind |-> "none", data |-> << >>]

\* Result<Message, MessageError>
Ok(m) == [ok |-> TRUE, msg |-> m, err |-> "none"]
Err(e) == [ok |-> FALSE, msg |-> NoMsg, err |-> e]

REPLACEMENT == << 239, 191, 189 >>

IsCont(b) == 128 <= b /\ b <= 191
\* safe_get: 0 past the end
At(s, i) == IF i <= Len(s) THEN s[i] ELSE 0

\* core::str::lossy: the length and validity of the chunk that starts s.
Utf8Chunk(s) ==
    LET b == s[1]
        b2 == At(s, 2)
        second_ok3 ==
            \/ b = 224 /\ 160 <= b2 /\ b2 <= 191
            \/ 225 <= b /\ b <= 236 /\ IsCont(b2)
            \/ b = 237 /\ 128 <= b2 /\ b2 <= 159
            \/ 238 <= b /\ b <= 239 /\ IsCont(b2)
        second_ok4 ==
            \/ b = 240 /\ 144 <= b2 /\ b2 <= 191
            \/ 241 <= b /\ b <= 243 /\ IsCont(b2)
            \/ b = 244 /\ 128 <= b2 /\ b2 <= 143
    IN  IF b < 128 THEN [valid |-> TRUE, n |-> 1]
        ELSE IF 194 <= b /\ b <= 223
        THEN IF IsCont(b2) THEN [valid |-> TRUE, n |-> 2]
             ELSE [valid |-> FALSE, n |-> 1]
        ELSE IF 224 <= b /\ b <= 239
        THEN IF ~second_ok3 THEN [valid |-> FALSE, n |-> 1]
             ELSE IF ~IsCont(At(s, 3)) THEN [valid |-> FALSE, n |-> 2]
             ELSE [valid |-> TRUE, n |-> 3]
        ELSE IF 240 <= b /\ b <= 244
        THEN IF ~second_ok4 THEN [valid |-> FALSE, n |-> 1]
             ELSE IF ~IsCont(At(s, 3)) THEN [valid |-> FALSE, n |-> 2]
             ELSE IF ~IsCont(At(s, 4)) THEN [valid |-> FALSE, n |-> 3]
             ELSE [valid |-> TRUE, n |-> 4]
        ELSE [valid |-> FALSE, n |-> 1]

\* UTF-8 bytes of String::from_utf8_lossy(s).to_string()
RECURSIVE from_utf8_lossy(_)
from_utf8_lossy(s) ==
    IF s = << >> THEN << >>
    ELSE Bind(Utf8Chunk(s), LAMBDA c :
             (IF c.valid THEN Take(s, c.n) ELSE REPLACEMENT)
             \o Bind(Drop(s, c.n), LAMBDA rest : from_utf8_lossy(rest)))


(***************************************************************************)
(* lib.rs: read_message_from, one iteration of its loop.                   *)
(*                                                                         *)
(* st is the function's locals [message, is_text]; src the bytes the       *)
(* stream delivers to this iteration's reads; io_ok whether the reads      *)
(* succeed; w_ok whether the write of an echoed Close or Pong succeeds.    *)
(* The value is the locals after the iteration, the frames written, and    *)
(* result: None while the loop goes on, Some(r) when the function returns  *)
(* r.                                                                      *)
(***************************************************************************)
ReasmStart == [message |-> << >>, is_text |-> None]

\* a variant of extend_from_slice: an assignment
extend_from_slice_overwrite(message, payload) == payload

\* Vec::extend_from_slice
extend_from_slice(message, payload) == message \o payload

read_frame(st, src, io_ok, w_ok) ==
    Bind(try_parse_from(src, io_ok), LAMBDA p :
    LET frame == p.frame
        is_text == IF st.is_text = None THEN Some(frame.opcode = Text)
                   ELSE st.is_text
        done(r, w) == [st |-> ReasmStart, written |-> w, result |-> Some(r)]
    IN
    Bind(IF IsSome(frame.mask) THEN demask(frame.payload, Unwrap(frame.mask))
         ELSE frame.payload, LAMBDA payload :
    Bind(IF is_non_control(frame.opcode)
         THEN extend_from_slice(st.message, payload)
         ELSE st.message, LAMBDA message :
        IF ~p.ok THEN done(Err("InvalidMessage"), << >>)
        ELSE IF frame.opcode = Close
        THEN IF w_ok
             THEN done(Err("ConnectionClosed"),
                       << Frame(TRUE, Close, None, payload) >>)
             ELSE done(Err("Network"), << >>)
        ELSE IF frame.opcode = Ping /\ ~w_ok THEN done(Err("Network"), << >>)
        ELSE LET w == IF frame.opcode = Ping
                      THEN << Frame(TRUE, Pong, None, payload) >>
                      ELSE << >>
             IN  IF frame.is_final
                 THEN done(Ok(IF is_text = Some(TRUE)
                              THEN MsgText(from_utf8_lossy(message))
                              ELSE MsgBinary(message)), w)
                 ELSE [st |-> [message |-> message, is_text |-> is_text],
                       written |-> w, result |-> None])))

(***************************************************************************)
(* lib.rs: write_message_to, close_connection.                             *)
(***************************************************************************)
\* a variant of chunks: one chunk of any size
chunks_whole(bytes) == IF bytes = << >> THEN << >> ELSE << bytes >>

\* bytes.chunks(CHUNK_SIZE)
RECURSIVE chunks(_)
chunks(bytes) ==
    IF bytes = << >> THEN << >>
    ELSE << Take(bytes, CHUNK_SIZE) >> \o chunks(Drop(bytes, CHUNK_SIZE))

\* The frames write_message_to writes when every write succeeds.
write_message_to(m) ==
    LET first_opcode == IF m.kind = "Text" THEN Text ELSE Binary
        cs == chunks(m.data)
        num_chunks == Len(cs)
    IN  [idx \in 1..num_chunks |->
            Frame(idx = num_chunks,
                  IF idx = 1 THEN first_opcode ELSE Continuation,
                  None, cs[idx])]

close_connection == << Frame(TRUE, Close, None, << >>) >>

\* enum Cmd
CmdSend(m) == [cmd |-> "Send", msg |-> m]
CmdClose == [cmd |-> "Close", msg |-> NoMsg]

\* Cmd::message
Cmd_message(cmd) == IF cmd.cmd = "Send" THEN Some(cmd.msg) ELSE None


(***************************************************************************)
(* State.                                                                  *)
(***************************************************************************)
Conns == 1..MaxConns

VARIABLES
    \* ---- per WebSocket (lib.rs) ----
    task,         \* the spawned stream_task: "none" (not spawned), "idle"
                  \* (awaiting NextStepFuture), "reading" (inside
                  \* read_message_from, awaiting a further frame), "done"
    reasm,        \* read_message_from's locals [message, is_text]
    recv_queue,   \* Arc<Mutex<VecDeque<Result<Message, MessageError>>>>
    cmd_channel,  \* the mpsc channel's buffer; it is closed once task is done
    stream,       \* the TcpStream as the peer leaves it: "open", "eof"
                  \* (peer closed: reads return 0 bytes), "reset" (I/O errors)
    out,          \* the frames written to the TcpStream
    handle,       \* the WebSocket value: "none", "held", "sending" and
                  \* "joining" (inside shutdown), "returned", "failed",
                  \* "dropped"
    \* ---- the relay (main.rs) ----
    rooms,        \* AppData.rooms: name -> [sockets: id -> conn, is_deletable]
    lock,         \* who holds the Mutex<AppData>: "free", "sched"
    req,          \* the request the accept loop is handling
    resp,         \* the last response the accept loop wrote
    sched,        \* msg_listener_task's position and locals
    \* ---- history (not program state) ----
    call,         \* the frames the running read_message_from call has read
    last_call,    \* the frames and the result of the last completed call
    pushed,       \* every item pushed onto recv_queue, in order
    polled,       \* every item poll_next_message returned, in order
    term,         \* why the task ended: "none", "read", "send", "close",
                  \* "panic"
    nenv,         \* what the environment did so far: frames put on the
                  \* wire, requests, faults of a stream
    nsends,       \* messages handed to try_send by the client so far
    sent,         \* every call of try_send by the client: the message, whether
                  \* the channel was closed, and what the call returned
    tick,         \* what the running (or last) scheduler tick did
    \* ---- the codec on its own (SpecCodec) ----
    codec         \* a frame, a payload or a message, and what write_to,
                  \* try_parse_from, demask and write_message_to made of it

wsVars == << task, reasm, recv_queue, cmd_channel, stream, out >>
histVars == << call, last_call, pushed, polled, term >>
relayVars == << rooms, lock, req, resp, sched, tick >>
vars == << task, reasm, recv_queue, cmd_channel, stream, out, handle,
           rooms, lock, req, resp, sched,
           call, last_call, pushed, polled, term, nenv, nsends, tick,
           sent, codec >>

(***************************************************************************)
(* lib.rs: the stream task spawned by WebSocket::new.                      *)
(***************************************************************************)
\* what an outcome costs the environment: a failing write is a fault
Fault(ok) == IF ok THEN 0 ELSE 1

\* history of a call of read_message_from: the frames it read, what it
\* returned, and what had been pushed onto the queue before its result
NoCall == [frames |-> << >>, result |-> None, before |-> << >>]

\* The channel is closed when the receiver is gone: the task has ended.
Closed(c) == task[c] = "done"

\* NextStep::Read and the iterations of read_message_from: c's task reads
\* the bytes src off its stream. From "idle" this is the peek completing and
\* read_message_from starting; from "reading" a further iteration.
ReadStep(c, src, io_ok, w_ok) ==
    /\ task[c] \in {"idle", "reading"}
    /\ \E r \in { read_frame(IF task[c] = "idle" THEN ReasmStart ELSE reasm[c],
                              src, io_ok, w_ok) } :
       \* the history keeps the frames that came off the wire
       \E seen \in { IF src = << >> THEN call[c]
                     ELSE Append(call[c], try_parse_from(src, io_ok).frame) } :
        /\ out' = [out EXCEPT ![c] = @ \o r.written]
        /\ reasm' = [reasm EXCEPT ![c] = r.st]
        /\ IF r.result = None
           THEN /\ task' = [task EXCEPT ![c] = "reading"]
                /\ call' = [call EXCEPT ![c] = seen]
                /\ UNCHANGED << recv_queue, cmd_channel, last_call, pushed, term >>
           ELSE LET msg == Unwrap(r.result)
                    should_close == ~msg.ok
                IN  /\ recv_queue' = [recv_queue EXCEPT ![c] = Append(@, msg)]
                    /\ pushed' = [pushed EXCEPT ![c] = Append(@, msg)]
                    /\ call' = [call EXCEPT ![c] = << >>]
                    /\ last_call' = [last_call EXCEPT ![c] =
                                        [frames |-> seen, result |-> Some(msg),
                                         before |-> pushed[c]]]
                    /\ task' = [task EXCEPT ![c] =
                                    IF should_close THEN "done" ELSE "idle"]
                    /\ term' = [term EXCEPT ![c] =
                                    IF should_close THEN "read" ELSE @]
                    /\ cmd_channel' = [cmd_channel EXCEPT ![c] =
                                          IF should_close THEN << >> ELSE @]

\* The peer's next frame f arrives on an open stream and the task reads it.
ActorReadFrame(c, f, w_ok) ==
    /\ stream[c] = "open"
    /\ nenv' = nenv + 1 + Fault(w_ok)
    /\ w_ok \/ f.opcode \in {Close, Ping}
    /\ \E src \in { write_to(f) } : ReadStep(c, src, TRUE, w_ok)
    /\ stream' = [stream EXCEPT ![c] = IF w_ok THEN @ ELSE "reset"]
    /\ UNCHANGED << handle, polled, nsends, sent, codec, relayVars >>

\* The peer has closed the stream: every read returns 0 bytes at once.
ActorReadEof(c) ==
    /\ stream[c] = "eof"
    /\ ReadStep(c, << >>, TRUE, TRUE)
    /\ UNCHANGED << stream, handle, polled, nenv, nsends, sent, codec, relayVars >>

\* The stream reports an I/O error to the read.
ActorReadError(c) ==
    /\ stream[c] = "reset"
    /\ ReadStep(c, << >>, FALSE, FALSE)
    /\ UNCHANGED << stream, handle, polled, nenv, nsends, sent, codec, relayVars >>

\* NextStep::Write(cmd): the stream is not readable and a command is ready.
ActorWrite(c, w_ok) ==
    /\ task[c] = "idle"
    /\ stream[c] = "open"
    /\ cmd_channel[c] # << >>
    /\ LET cmd == Head(cmd_channel[c])
           frames == IF cmd.cmd = "Send" THEN write_message_to(cmd.msg)
                     ELSE close_connection
           wrote == w_ok \/ frames = << >>
           should_close == IF cmd.cmd = "Send" THEN ~wrote ELSE TRUE
       IN  /\ out' = [out EXCEPT ![c] = IF wrote THEN @ \o frames ELSE @]
           /\ stream' = [stream EXCEPT ![c] = IF wrote THEN @ ELSE "reset"]
           /\ task' = [task EXCEPT ![c] = IF should_close THEN "done" ELSE @]
           /\ term' = [term EXCEPT ![c] =
                          IF ~should_close THEN @
                          ELSE IF cmd.cmd = "Send" THEN "send" ELSE "close"]
           /\ cmd_channel' = [cmd_channel EXCEPT ![c] =
                                 IF should_close THEN << >> ELSE Tail(@)]
           /\ nenv' = nenv + Fault(wrote)
    /\ UNCHANGED << reasm, recv_queue, handle, call, last_call, pushed, polled,
                    nsends, sent, codec, relayVars >>

\* NextStepFuture::poll once the WebSocket was dropped, and its Sender with
\* it: the stream is not readable, the channel holds no command and has no
\* sender, so that rx.recv() is Ready(None) and cmd.unwrap() panics. The
\* panic ends the task and drops the TcpStream.
ActorPanic(c) ==
    /\ task[c] = "idle"
    /\ handle[c] = "dropped"
    /\ stream[c] = "open"
    /\ cmd_channel[c] = << >>
    /\ task' = [task EXCEPT ![c] = "done"]
    /\ term' = [term EXCEPT ![c] = "panic"]
    /\ UNCHANGED << reasm, recv_queue, cmd_channel, stream, out, handle, call,
                    last_call, pushed, polled, nenv, nsends, sent, codec,
                    relayVars >>

\* The peer closes its end without a Close frame.
PeerClose(c) ==
    /\ task[c] \in {"idle", "reading"}
    /\ stream[c] = "open"
    /\ stream' = [stream EXCEPT ![c] = "eof"]
    /\ nenv' = nenv + 1
    /\ UNCHANGED << task, reasm, recv_queue, cmd_channel, out, handle,
                    histVars, nsends, sent, codec, relayVars >>

\* The connection breaks: reads and writes fail from now on.
PeerReset(c) ==
    /\ task[c] \in {"idle", "reading"}
    /\ stream[c] \in {"open", "eof"}
    /\ stream' = [stream EXCEPT ![c] = "reset"]
    /\ nenv' = nenv + 1
    /\ UNCHANGED << task, reasm, recv_queue, cmd_channel, out, handle,
                    histVars, nsends, sent, codec, relayVars >>

(***************************************************************************)
(* lib.rs: the public API, as a client holding the WebSocket calls it.     *)
(***************************************************************************)
\* a variant of pop_front: VecDeque::pop_back
pop_back(q) ==
    IF q = << >> THEN [item |-> None, rest |-> q]
    ELSE [item |-> Some(q[Len(q)]), rest |-> SubSeq(q, 1, Len(q) - 1)]

\* VecDeque::pop_front under the queue's lock
pop_front(q) ==
    IF q = << >> THEN [item |-> None, rest |-> q]
    ELSE [item |-> Some(Head(q)), rest |-> Tail(q)]

\* WebSocket::poll_next_message
poll_next_message(c) == pop_front(recv_queue[c])

ClientPoll(c) ==
    /\ handle[c] = "held"
    /\ LET r == poll_next_message(c)
       IN  /\ recv_queue' = [recv_queue EXCEPT ![c] = r.rest]
           /\ polled' = [polled EXCEPT ![c] = @ \o r.item]
    /\ UNCHANGED << task, reasm, cmd_channel, stream, out, handle, call,
                    last_call, pushed, term, nenv, nsends, sent, codec, relayVars >>

\* WebSocket::try_send: Sender::send waits for room in the buffer and fails
\* at once when the channel is closed. The value is the channel after a
\* send that completes; CanSend tells whether it completes.
CanSend(c) == Closed(c) \/ Len(cmd_channel[c]) < CMD_CHANNEL_BUF_SIZE

\* a variant of try_send: the command is buffered whatever the channel's
\* state
try_send_unchecked(c, m) ==
    [ok |-> TRUE, chan |-> Append(cmd_channel[c], CmdSend(m)), back |-> None]

\* a variant of try_send: the command goes to the front of the buffer
try_send_front(c, m) ==
    IF Closed(c)
    THEN [ok |-> FALSE, chan |-> cmd_channel[c],
          back |-> Cmd_message(CmdSend(m))]
    ELSE [ok |-> TRUE, chan |-> << CmdSend(m) >> \o cmd_channel[c],
          back |-> None]

\* back is the message the error hands back: e.0.message().unwrap()
try_send(c, m) ==
    IF Closed(c)
    THEN [ok |-> FALSE, chan |-> cmd_channel[c],
          back |-> Cmd_message(CmdSend(m))]
    ELSE [ok |-> TRUE, chan |-> Append(cmd_channel[c], CmdSend(m)),
          back |-> None]

ClientSend(c, m) ==
    /\ handle[c] = "held"
    /\ nsends < MaxSends
    /\ CanSend(c)
    /\ \E r \in { try_send(c, m) } :
          /\ cmd_channel' = [cmd_channel EXCEPT ![c] = r.chan]
          /\ sent' = [sent EXCEPT ![c] =
                         Append(@, [msg |-> m, closed |-> Closed(c),
                                    ok |-> r.ok, back |-> r.back])]
    /\ nsends' = nsends + 1
    /\ UNCHANGED << task, reasm, recv_queue, stream, out, handle, histVars,
                    nenv, codec, relayVars >>

\* The client drops the WebSocket without calling shutdown: the JoinHandle
\* is dropped, which detaches the task, and so is the channel's only Sender.
ClientDrop(c) ==
    /\ handle[c] = "held"
    /\ handle' = [handle EXCEPT ![c] = "dropped"]
    /\ UNCHANGED << wsVars, histVars, nenv, nsends, sent, codec, relayVars >>

\* WebSocket::shutdown is called: it takes the WebSocket by value.
ShutdownCall(c) ==
    /\ handle[c] = "held"
    /\ handle' = [handle EXCEPT ![c] = "sending"]
    /\ UNCHANGED << wsVars, histVars, nenv, nsends, sent, codec, relayVars >>

\* shutdown: cmd_channel.send(Cmd::Close).await completes
ShutdownSend(c) ==
    /\ handle[c] = "sending"
    /\ CanSend(c)
    /\ IF Closed(c)
       THEN /\ handle' = [handle EXCEPT ![c] = "failed"]
            /\ UNCHANGED cmd_channel
       ELSE /\ handle' = [handle EXCEPT ![c] = "joining"]
            /\ cmd_channel' = [cmd_channel EXCEPT ![c] = Append(@, CmdClose)]
    /\ UNCHANGED << task, reasm, recv_queue, stream, out, histVars, nenv, nsends, sent, codec,
                    relayVars >>

\* shutdown: stream_task.await completes
ShutdownJoin(c) ==
    /\ handle[c] = "joining"
    /\ task[c] = "done"
    /\ handle' = [handle EXCEPT ![c] = "returned"]
    /\ UNCHANGED << wsVars, histVars, nenv, nsends, sent, codec, relayVars >>


(***************************************************************************)
(* main.rs: AppData, the accept loop's requests.                           *)
(*                                                                         *)
(* The accept loop handles one request at a time. A request that finds     *)
(* the registry's lock free is handled in one step: the handler runs to    *)
(* its end without giving the lock up. A request that arrives while the    *)
(* scheduler holds the lock waits at app_data.lock(): req is that request. *)
(***************************************************************************)
EmptyMap == << >>
RoomData_new == [sockets |-> EmptyMap, is_deletable |-> FALSE]
DefaultRoom == "roomForAll"

\* a variant of Remove: nothing is removed
Remove_skipped(m, ks) == m

\* HashMap::insert, HashMap::remove (of a set of keys)
Insert(m, k, v) == [x \in DOMAIN m \cup {k} |-> IF x = k THEN v ELSE m[x]]
Remove(m, ks) == [x \in DOMAIN m \ ks |-> m[x]]

\* the WebSockets a room holds
Members(room) == { room.sockets[id] : id \in DOMAIN room.sockets }

NoReq == [kind |-> "none", room |-> ""]
NoResp == [status |-> 0, names |-> {}]
WsReq(r) == [kind |-> "ws", room |-> r]
RoomsReq == [kind |-> "rooms", room |-> ""]

\* what handling the request q adds to the environment's count: a request
\* that waited was counted when it arrived
Arrival(q) == IF req = q THEN 0 ELSE 1

\* accept + Request::try_parse_from while a tick runs: the handler of q
\* waits for the lock
ReqArrive(q) ==
    /\ req = NoReq
    /\ lock = "sched"
    /\ req' = q
    /\ nenv' = nenv + 1
    /\ UNCHANGED << wsVars, handle, histVars, nsends, sent, codec, rooms, lock, resp,
                    sched, tick >>

\* handle, GET /api/rooms: the names under the lock
HandleRooms ==
    /\ req \in {NoReq, RoomsReq}
    /\ lock = "free"
    /\ resp' = [status |-> 200, names |-> DOMAIN rooms]
    /\ req' = NoReq
    /\ nenv' = nenv + Arrival(RoomsReq)
    /\ tick' = [tick EXCEPT !.listed = @ \cup {DOMAIN rooms}]
    /\ UNCHANGED << wsVars, handle, histVars, nsends, sent, codec, rooms, lock, sched >>

\* handle_new_ws from app_data.lock() on, for an upgraded request that
\* names the room r: c is the WebSocket that WebSocket::new makes of the
\* stream, id what rng.gen() returns, w_ok whether the 101 response can be
\* written. HashMap::insert puts c in the place of a member that has the
\* same id: that member's WebSocket is dropped.
handle_new_ws(r, c, id, w_ok) ==
    /\ req \in {NoReq, WsReq(r)}
    /\ lock = "free"
    /\ task[c] = "none"
    /\ req' = NoReq
    /\ nenv' = nenv + Arrival(WsReq(r)) + Fault(w_ok)
    /\ IF r \notin DOMAIN rooms
       THEN /\ resp' = [status |-> 404, names |-> {}]
            /\ UNCHANGED << task, handle, rooms, tick >>
       ELSE IF ~w_ok
       THEN /\ resp' = NoResp
            /\ UNCHANGED << task, handle, rooms, tick >>
       ELSE /\ resp' = [status |-> 101, names |-> {}]
            /\ task' = [task EXCEPT ![c] = "idle"]
            /\ handle' =
                  [d \in Conns |->
                      IF d = c THEN "held"
                      ELSE IF /\ id \in DOMAIN rooms[r].sockets
                              /\ rooms[r].sockets[id] = d
                      THEN "dropped"
                      ELSE handle[d]]
            /\ rooms' = [rooms EXCEPT ![r] =
                            [sockets |-> Insert(@.sockets, id, c),
                             is_deletable |-> TRUE]]
            /\ tick' = [tick EXCEPT
                           !.late = IF req = NoReq THEN @ ELSE @ \cup {c}]
    /\ UNCHANGED << reasm, recv_queue, cmd_channel, stream, out, histVars,
                    nsends, sent, codec, lock, sched >>

(***************************************************************************)
(* main.rs: the upgrade of a request to a WebSocket.                       *)
(*                                                                         *)
(* A request is its headers, their names case-folded as HeaderName does,   *)
(* and its path. A path is the sequence of its tokens: "?", "&" and "="    *)
(* are tokens, and so is every stretch of the path between them.           *)
(***************************************************************************)
to_ascii_lowercase(v) ==
    CASE v = "Upgrade" -> "upgrade"
      [] v = "WebSocket" -> "websocket"
      [] v = "keep-alive, Upgrade" -> "keep-alive, upgrade"
      [] OTHER -> v

\* HashMap<HeaderName, String>::get
HeaderGet(headers, name) ==
    IF name \in DOMAIN headers THEN Some(headers[name]) ELSE None

\* a variant of fulfills_ws_requirements: every request passes
fulfills_anything(request) == TRUE

fulfills_ws_requirements(request) ==
    LET connection == HeaderGet(request.headers, "connection")
        upgrade == HeaderGet(request.headers, "upgrade")
        key == HeaderGet(request.headers, "sec-websocket-key")
        has_conn == to_ascii_lowercase(Unwrap(connection)) = "upgrade"
        \* has_conn && req.headers().get("upgrade")?... == "websocket"
        and_then ==
            IF ~has_conn THEN Some(FALSE)
            ELSE IF upgrade = None THEN None
            ELSE Some(to_ascii_lowercase(Unwrap(upgrade)) = "websocket")
    IN  IF connection = None THEN FALSE
        ELSE IF and_then = None THEN FALSE
        ELSE Unwrap(and_then) /\ IsSome(key)

\* the place of the first of the tokens seps in s, 0 if there is none
FirstOf(s, seps) ==
    IF \E i \in 1..Len(s) : s[i] \in seps
    THEN CHOOSE i \in 1..Len(s) :
             s[i] \in seps /\ \A j \in 1..(i - 1) : s[j] \notin seps
    ELSE 0

\* str::split(&['?', '&'])
RECURSIVE split(_, _)
split(s, seps) ==
    IF FirstOf(s, seps) = 0 THEN << s >>
    ELSE << Take(s, FirstOf(s, seps) - 1) >>
         \o split(Drop(s, FirstOf(s, seps)), seps)

\* str::split_once('=')
split_once(s, sep) ==
    IF FirstOf(s, {sep}) = 0 THEN None
    ELSE Some(<< Take(s, FirstOf(s, {sep}) - 1), Drop(s, FirstOf(s, {sep})) >>)

\* .flat_map(|pair| pair.split_once('=')): the pairs that have a '='
RECURSIVE flat_map_split_once(_)
flat_map_split_once(pairs) ==
    IF pairs = << >> THEN << >>
    ELSE split_once(Head(pairs), "=") \o flat_map_split_once(Tail(pairs))

get_query_params(path) ==
    flat_map_split_once(Tail(split(path, {"?", "&"})))

\* the String of a value of at most one token
to_owned(v) == IF v = << >> THEN "" ELSE v[1]

\* try_upgrade_to_ws: the name of the room, when the request can be
\* upgraded (the 101 response it also builds is the same for every name)
try_upgrade_to_ws(request) ==
    LET found == SelectSeq(get_query_params(request.path),
                           LAMBDA kv : kv[1] = << "room" >>)
    IN  IF ~fulfills_ws_requirements(request) THEN None
        ELSE IF found = << >> THEN None
        ELSE IF HeaderGet(request.headers, "sec-websocket-key") = None
        THEN None
        ELSE Some(to_owned(found[1][2]))

\* handle's arm for GET /ws..., and handle_new_ws from its start: a
\* request that cannot be upgraded is answered 400 before the registry is
\* looked at.
handle_ws(request, c, id, w_ok) ==
    /\ req = NoReq
    /\ \E u \in { try_upgrade_to_ws(request) } :
          IF u = None
          THEN /\ resp' = [status |-> 400, names |-> {}]
               /\ nenv' = nenv + 1
               /\ UNCHANGED << wsVars, handle, histVars, nsends, sent, codec,
                               rooms, lock, req, sched, tick >>
          ELSE handle_new_ws(Unwrap(u), c, id, w_ok)

(***************************************************************************)
(* main.rs: handle_new_room, for GET /api/gen-room. name is what the       *)
(* random generator gives, w_ok whether the response can be written.       *)
(* HashMap::insert puts the new room in the place of a room that has the   *)
(* same name: that room's WebSockets are dropped.                          *)
(***************************************************************************)
GenReq(name) == [kind |-> "gen", room |-> name]

\* a variant of at_capacity: the comparison is strict
at_capacity_strict(len) == len > MAX_ROOM_NUMBER

\* data.rooms.len() >= MAX_ROOM_NUMBER
at_capacity(len) == len >= MAX_ROOM_NUMBER

handle_new_room(name, w_ok) ==
    /\ req \in {NoReq, GenReq(name)}
    /\ lock = "free"
    /\ req' = NoReq
    /\ nenv' = nenv + Arrival(GenReq(name)) + Fault(w_ok)
    /\ IF at_capacity(Cardinality(DOMAIN rooms))
       THEN /\ resp' = IF w_ok THEN [status |-> 403, names |-> {}] ELSE NoResp
            /\ UNCHANGED << rooms, handle >>
       ELSE /\ rooms' = Insert(rooms, name, RoomData_new)
            /\ handle' =
                  [c \in Conns |->
                      IF name \in DOMAIN rooms /\ c \in Members(rooms[name])
                      THEN "dropped"
                      ELSE handle[c]]
            /\ resp' = IF w_ok THEN [status |-> 200, names |-> {name}]
                       ELSE NoResp
    /\ UNCHANGED << wsVars, histVars, nsends, sent, codec, lock, sched, tick >>

(***************************************************************************)
(* main.rs: msg_listener_task.                                             *)
(*                                                                         *)
(* A tick holds the registry's lock from its start to its end, and the     *)
(* only places where it can wait are the lock itself and a try_send on a   *)
(* full channel. What it does between two such places touches the          *)
(* registry, which nobody else reaches meanwhile, and the head of each     *)
(* member's queue, which the member's task only appends to; that stretch   *)
(* is one step. sched.pc is "sleep" between ticks and "send" in the send   *)
(* loop of sched.room. HashMap iteration order is unspecified: the rooms,  *)
(* the messages and the peers are taken in any order.                      *)
(***************************************************************************)
NoSend == << >>
SchedSleep ==
    [pc |-> "sleep", order |-> << >>, room |-> "", sends |-> {},
     cur |-> NoSend, delete_rooms |-> {}]

\* history of the running (or last) tick: snap, the members each room had
\* when its loop body started; collected, the messages polled; enq, the
\* sends that reached a channel (dup: one of them twice); failed, the sends
\* whose try_send returned an error; evicted, the
\* members noted for removal; backlog, the members polled while an error
\* was waiting anywhere in their queue; late, the
\* connections whose join waited for this tick to end; listed, the answers
\* GET /api/rooms gave since this tick
NoTick ==
    [snap |-> EmptyMap, collected |-> {}, enq |-> {}, dup |-> FALSE,
     failed |-> {}, evicted |-> {}, backlog |-> {}, late |-> {},
     listed |-> {}]

\* what a tick reads and writes besides the channels
SchedState ==
    [rooms |-> rooms, recv_queue |-> recv_queue, polled |-> polled,
     handle |-> handle, sched |-> sched, tick |-> tick]

\* a variant of peers_of: the filter keeps the sender
peers_of_sender(sockets, sender_id) ==
    { id \in DOMAIN sockets : id = sender_id }

\* a variant of peers_of: the iteration without its filter
peers_of_unfiltered(sockets, sender_id) == DOMAIN sockets

\* room.sockets.iter().filter(|(&id, _)| id != sender_id)
peers_of(sockets, sender_id) == { id \in DOMAIN sockets : id # sender_id }

HasErr(q) == \E i \in 1..Len(q) : ~q[i].ok

\* One room of the loop over data.rooms, up to its send loop: poll every
\* member once, remove the members whose poll gave an error, note the room
\* for deletion. sends is what the send loop has to do: << sender_id,
\* message, peer_id >>.
Collect(S, r) ==
    LET sockets == S.rooms[r].sockets
        ids == DOMAIN sockets
        key(c) == CHOOSE id \in ids : sockets[id] = c
    IN  Bind([id \in ids |-> pop_front(S.recv_queue[sockets[id]])],
             LAMBDA res :
        LET got(id) == Unwrap(res[id].item)
            delete_members ==
                { id \in ids : IsSome(res[id].item) /\ ~got(id).ok }
            messages ==
                { << id, got(id).msg >> :
                    id \in { i \in ids : IsSome(res[i].item) /\ got(i).ok } }
            left == Remove(sockets, delete_members)
            gone == { sockets[id] : id \in delete_members }
            empty == DOMAIN left = {} /\ S.rooms[r].is_deletable
        IN  [rooms |-> [S.rooms EXCEPT ![r].sockets = left],
             recv_queue |->
                 [c \in Conns |-> IF c \in Members(S.rooms[r])
                                  THEN res[key(c)].rest
                                  ELSE S.recv_queue[c]],
             polled |->
                 [c \in Conns |-> IF c \in Members(S.rooms[r])
                                  THEN S.polled[c] \o res[key(c)].item
                                  ELSE S.polled[c]],
             handle |->
                 [c \in Conns |-> IF c \in gone THEN "dropped"
                                  ELSE S.handle[c]],
             sched |->
                 [S.sched EXCEPT
                     !.room = r,
                     !.sends = UNION { { << m[1], m[2], p >> :
                                           p \in peers_of(left, m[1]) } :
                                       m \in messages },
                     !.cur = NoSend,
                     !.delete_rooms = IF empty THEN @ \cup {r} ELSE @],
             tick |->
                 [S.tick EXCEPT
                     !.snap = Insert(@, r, Members(S.rooms[r])),
                     !.collected = @ \cup
                         { << r, sockets[m[1]], m[2] >> : m \in messages },
                     !.evicted = @ \cup gone,
                     !.backlog = @ \cup
                         { c \in Members(S.rooms[r]) :
                             HasErr(S.recv_queue[c]) }]])

\* The loop over data.rooms from the rooms in order on, up to the next
\* send loop that has something to send or, past the last room, to the end
\* of the tick: the noted rooms are removed and the lock is dropped.
RECURSIVE RunRooms(_, _)
RunRooms(S, order) ==
    IF order = << >>
    THEN [S EXCEPT !.rooms = Remove(@, S.sched.delete_rooms),
                   !.sched = SchedSleep]
    ELSE Bind(Collect(S, Head(order)), LAMBDA S1 :
             IF S1.sched.sends = {}
             THEN RunRooms(S1, Tail(order))
             ELSE [S1 EXCEPT !.sched.pc = "send",
                             !.sched.order = Tail(order)])

\* the orders in which an iteration can visit the keys ks
Orders(ks) ==
    { o \in [1..Cardinality(ks) -> ks] :
        \A i, j \in 1..Cardinality(ks) : i # j => o[i] # o[j] }

\* some sequence of the elements of ks
RECURSIVE SeqOf(_)
SeqOf(ks) ==
    IF ks = {} THEN << >>
    ELSE Bind(CHOOSE k \in ks : TRUE, LAMBDA k : << k >> \o SeqOf(ks \ {k}))

\* the orders in which a tick can visit the rooms: every order of the
\* rooms that have members. A room without members is polled for nothing
\* and sends nothing, so that its place in the order changes nothing: the
\* rooms without members come last, in some order.
TickOrders ==
    LET inhabited == { r \in DOMAIN rooms : DOMAIN rooms[r].sockets # {} }
    IN  { o \o SeqOf(DOMAIN rooms \ inhabited) : o \in Orders(inhabited) }

\* the scheduler is where S says
SchedAt(S) ==
    /\ rooms' = S.rooms
    /\ recv_queue' = S.recv_queue
    /\ polled' = S.polled
    /\ handle' = S.handle
    /\ sched' = S.sched
    /\ tick' = S.tick
    /\ lock' = IF S.sched.pc = "sleep" THEN "free" ELSE "sched"

\* The sleep is over: app_data.lock().await, then the loop over the rooms.
Tick ==
    /\ sched.pc = "sleep"
    /\ lock = "free"
    /\ \E order \in TickOrders :
          \E S \in { RunRooms([SchedState EXCEPT !.tick = NoTick], order) } :
              SchedAt(S)
    /\ UNCHANGED << task, reasm, cmd_channel, stream, out, call, last_call,
                    pushed, term, nenv, nsends, sent, codec, req, resp >>

\* a variant of after_try_send: an error ends the send loop
after_try_send_break(sends, t, ok) == IF ok THEN sends \ {t} ELSE {}

\* what the send loop has left to do after the send t returned: an error is
\* logged by debug! and the loop goes on
after_try_send(sends, t, ok) == sends \ {t}

\* socket.try_send(message.clone()).await for one peer of one message: it
\* waits while the peer's channel is full, and an error is logged and
\* skipped. The peers of a message are served before the next message; after
\* the last send of the room the loop over the rooms goes on.
TickSend(t) ==
    /\ sched.pc = "send"
    /\ t \in sched.sends
    /\ \A u \in sched.sends : << u[1], u[2] >> = sched.cur
                                  => << t[1], t[2] >> = sched.cur
    /\ LET sockets == rooms[sched.room].sockets
           c == sockets[t[3]]
           r == try_send(c, t[2])
           S1 == [SchedState EXCEPT
                     !.sched.sends = after_try_send(@, t, r.ok),
                     !.sched.cur = << t[1], t[2] >>,
                     !.tick.enq = IF r.ok
                                  THEN @ \cup { << sockets[t[1]], t[2], c >> }
                                  ELSE @,
                     !.tick.dup = @ \/ (r.ok /\ << sockets[t[1]], t[2], c >>
                                                   \in tick.enq),
                     !.tick.failed = IF r.ok THEN @
                                     ELSE @ \cup { << sockets[t[1]], t[2], c >> }]
       IN  /\ CanSend(c)
           /\ cmd_channel' = [cmd_channel EXCEPT ![c] = r.chan]
           /\ \E S \in { IF S1.sched.sends = {}
                         THEN RunRooms(S1, S1.sched.order) ELSE S1 } :
                 SchedAt(S)
    /\ UNCHANGED << task, reasm, stream, out, call, last_call, pushed, term,
                    nenv, nsends, sent, codec, req, resp >>

(***************************************************************************)
(* The frames the peers send.                                              *)
(***************************************************************************)
KEY == << 55, 250, 33, 61 >>

\* a frame as a client masks it: payload is what demasking gives back
Masked(fin, op, payload) == Frame(fin, op, Some(KEY), demask(payload, KEY))

\* 0xC3 0xA9 is U+00E9; either byte alone is not valid UTF-8
DataFrames ==
    { Frame(fin, op, None, << 195 >>) : fin \in BOOLEAN, op \in {Text, Binary} }
    \cup { Masked(fin, Continuation, << 169 >>) : fin \in BOOLEAN }

ControlFrames ==
    { Masked(TRUE, Ping, << 72 >>),
      Masked(TRUE, Close, << 3, 232 >>),
      Frame(TRUE, Pong, None, << >>) }

ActorFrames == DataFrames \cup ControlFrames

ClientMsgs == { MsgText(<< 72 >>) }

(***************************************************************************)
(* The codec on its own: write_to, try_parse_from, demask and              *)
(* write_message_to applied to a frame, a payload or a message. codec.pc   *)
(* tells what was applied so far: "frame" -> "bytes" -> "parsed",          *)
(* "payload" -> "once" -> "twice", "message" -> "written", and for a       *)
(* stream that ends in the middle of a frame "short" -> "cut".             *)
(***************************************************************************)
NoFrame == Frame(FALSE, Continuation, None, << >>)
NoParse == [ok |-> FALSE, frame |-> NoFrame]

NoCodec ==
    [pc |-> "none", frame |-> NoFrame, bytes |-> << >>, parsed |-> NoParse,
     key |-> << 0, 0, 0, 0 >>, input |-> << >>, data |-> << >>,
     msg |-> NoMsg, ok |-> FALSE, frames |-> << >>]

\* n bytes, all values among them; n bytes of ASCII text
Bytes(n) == [i \in 1..n |-> (i * 7 + 3) % 256]
Ascii(n) == [i \in 1..n |-> 32 + (i % 95)]

\* the sixteen values of the opcode field
AllOpCodes == { OpCode_try_from(n).v : n \in 0..15 }

\* payload lengths: short ones for every shape of frame, and the lengths
\* around the thresholds of the length field
SmallLens == {0, 1, 5}
BoundaryLens == {125, 126, 127, 32767, 32768, 65535, 65536}

CodecFrames ==
    { Frame(fin, op, mask, Bytes(n)) :
        fin \in BOOLEAN, op \in AllOpCodes, mask \in {None, Some(KEY)},
        n \in SmallLens }
    \cup { Frame(TRUE, Binary, mask, Bytes(n)) :
             mask \in {None, Some(KEY)}, n \in BoundaryLens }

CodecKeys == { KEY, << 0, 0, 0, 0 >>, << 255, 1, 128, 77 >> }
CodecPayloads ==
    { Bytes(n) : n \in 0..9 } \cup { << 127, 159, 77, 81, 88 >> }

\* message lengths around the chunk size
MessageLens == {0, 1, 1023, 1024, 1025, 2048, 2049, 3000}
CodecMessages ==
    { MsgText(Ascii(n)) : n \in MessageLens }
    \cup { MsgBinary(Bytes(n)) : n \in MessageLens }

\* frames whose bytes the stream delivers only in part: one with a mask,
\* one with the 2-byte length, one with the 8-byte length
ShortFrames ==
    { Frame(TRUE, Text, Some(KEY), Ascii(5)),
      Frame(TRUE, Binary, None, Bytes(126)),
      Frame(FALSE, Binary, Some(KEY), Bytes(32768)) }

\* how many bytes of the n of a frame arrive before the stream ends
ShortCuts(n) == { k \in {0, 1, 2, 3, 4, 6, 10, 14, 15, n - 1} : k < n }

CodecJobs ==
    { [NoCodec EXCEPT !.pc = "frame", !.frame = f] : f \in CodecFrames }
    \cup UNION { { [NoCodec EXCEPT !.pc = "short", !.frame = f,
                                   !.bytes = Take(write_to(f), k)] :
                     k \in ShortCuts(Len(write_to(f))) } :
                   f \in ShortFrames }
    \cup { [NoCodec EXCEPT !.pc = "payload", !.key = k, !.input = x,
                           !.data = x] :
             k \in CodecKeys, x \in CodecPayloads }
    \cup { [NoCodec EXCEPT !.pc = "message", !.msg = m] : m \in CodecMessages }

restVars ==
    << task, reasm, recv_queue, cmd_channel, stream, out, handle,
       rooms, lock, req, resp, sched,
       call, last_call, pushed, polled, term, nenv, nsends, tick, sent >>

\* frame.write_to(&mut buffer) on a Vec<u8>
CodecWrite ==
    /\ codec.pc = "frame"
    /\ codec' = [codec EXCEPT !.pc = "bytes", !.bytes = write_to(codec.frame)]
    /\ UNCHANGED restVars

\* Frame::try_parse_from(&mut &data[..]), on all the bytes of a frame or
\* on the bytes that arrived before the stream ended
CodecParse ==
    /\ codec.pc \in {"bytes", "short"}
    /\ codec' = [codec EXCEPT !.pc = IF codec.pc = "bytes" THEN "parsed"
                                     ELSE "cut",
                              !.parsed = try_parse_from(codec.bytes, TRUE)]
    /\ UNCHANGED restVars

\* demask(&mut data, mask), once and once again
CodecDemask ==
    /\ codec.pc \in {"payload", "once"}
    /\ codec' = [codec EXCEPT
                    !.pc = IF codec.pc = "payload" THEN "once" ELSE "twice",
                    !.data = demask(codec.data, codec.key)]
    /\ UNCHANGED restVars

\* write_message_to(message, &mut stream): w_ok tells whether the stream
\* takes the writes. The message without bytes returns Ok before any write.
CodecWriteMessage(w_ok) ==
    /\ codec.pc = "message"
    /\ \E frames \in { write_message_to(codec.msg) } :
          codec' = [codec EXCEPT
                       !.pc = "written",
                       !.ok = w_ok \/ frames = << >>,
                       !.frames = IF w_ok THEN frames ELSE << >>]
    /\ UNCHANGED restVars

(***************************************************************************)
(* Initial states.                                                         *)
(***************************************************************************)
InitWs(live) ==
    /\ task = [c \in Conns |-> IF c \in live THEN "idle" ELSE "none"]
    /\ handle = [c \in Conns |-> IF c \in live THEN "held" ELSE "none"]
    /\ reasm = [c \in Conns |-> ReasmStart]
    /\ recv_queue = [c \in Conns |-> << >>]
    /\ cmd_channel = [c \in Conns |-> << >>]
    /\ stream = [c \in Conns |-> "open"]
    /\ out = [c \in Conns |-> << >>]
    /\ call = [c \in Conns |-> << >>]
    /\ last_call = [c \in Conns |-> NoCall]
    /\ pushed = [c \in Conns |-> << >>]
    /\ polled = [c \in Conns |-> << >>]
    /\ term = [c \in Conns |-> "none"]
    /\ nenv = 0
    /\ nsends = 0
    /\ sent = [c \in Conns |-> << >>]

InitRelay ==
    /\ rooms = [r \in {DefaultRoom} |-> RoomData_new]
    /\ lock = "free"
    /\ req = NoReq
    /\ resp = NoResp
    /\ sched = SchedSleep
    /\ tick = NoTick

\* WebSocket::new has run on one accepted stream
InitActor == InitWs({1}) /\ InitRelay /\ codec = NoCodec

(***************************************************************************)
(* SpecRead: one WebSocket, its peer, and a client that polls.             *)
(***************************************************************************)
NextRead ==
    \E c \in Conns :
        \/ \E f \in ActorFrames, w_ok \in BOOLEAN :
              nenv < MaxFrames /\ ActorReadFrame(c, f, w_ok)
        \/ ActorReadEof(c)
        \/ ActorReadError(c)
        \/ PeerClose(c)
        \/ PeerReset(c)
        \/ ClientPoll(c)

SpecRead == InitActor /\ [][NextRead]_vars

(***************************************************************************)
(* SpecActor: one WebSocket, its peer, and a client of the whole public    *)
(* API (poll_next_message, try_send, shutdown).                            *)
(***************************************************************************)
ApiFrames ==
    { Frame(TRUE, Text, None, << 72 >>),
      Frame(FALSE, Text, None, << 72 >>),
      Frame(TRUE, Close, None, << >>) }

NextActor ==
    \E c \in Conns :
        \/ \E f \in ApiFrames, w_ok \in BOOLEAN :
              nenv < MaxFrames /\ ActorReadFrame(c, f, w_ok)
        \/ ActorReadEof(c)
        \/ ActorReadError(c)
        \/ \E w_ok \in BOOLEAN : ActorWrite(c, w_ok)
        \/ ActorPanic(c)
        \/ PeerClose(c)
        \/ PeerReset(c)
        \/ ClientPoll(c)
        \/ \E m \in ClientMsgs : ClientSend(c, m)
        \/ ClientDrop(c)
        \/ ShutdownCall(c)
        \/ ShutdownSend(c)
        \/ ShutdownJoin(c)

SpecActor == InitActor /\ [][NextActor]_vars

(***************************************************************************)
(* Spec: the relay.                                                        *)
(***************************************************************************)
RelayFrames ==
    { Frame(TRUE, Text, None, << 72 >>),
      Frame(TRUE, Close, None, << >>) }

RoomNames == { DefaultRoom }
Requests == { RoomsReq } \cup { WsReq(r) : r \in RoomNames }

\* rng.gen() returns an id no member has: the connection's own number
FreshConn(c) == task[c] = "none" /\ \A d \in 1..(c - 1) : task[d] # "none"

\* the environment may still do n things
May(n) == nenv + n <= MaxEvents

Init == InitWs({}) /\ InitRelay /\ codec = NoCodec

Next ==
    \/ \E q \in Requests : May(1) /\ ReqArrive(q)
    \/ May(Arrival(RoomsReq)) /\ HandleRooms
    \/ \E r \in RoomNames, c \in Conns, w_ok \in BOOLEAN :
          /\ May(Arrival(WsReq(r)) + Fault(w_ok))
          /\ FreshConn(c)
          /\ handle_new_ws(r, c, c, w_ok)
    \/ Tick
    \/ \E t \in sched.sends : TickSend(t)
    \/ \E c \in Conns :
        \/ \E f \in RelayFrames, w_ok \in BOOLEAN :
              May(1 + Fault(w_ok)) /\ ActorReadFrame(c, f, w_ok)
        \/ ActorReadEof(c)
        \/ ActorReadError(c)
        \/ \E w_ok \in BOOLEAN : May(Fault(w_ok)) /\ ActorWrite(c, w_ok)
        \/ May(1) /\ PeerClose(c)
        \/ May(1) /\ PeerReset(c)

Spec == Init /\ [][Next]_vars

(***************************************************************************)
(* FairActor: SpecActor where the task and the caller of shutdown run      *)
(* whenever they can (tokio schedules every ready task). Nothing is        *)
(* assumed of the peer: it may send nothing more.                          *)
(***************************************************************************)
FairActor ==
    /\ SpecActor
    /\ \A c \in Conns :
          /\ WF_vars(ActorWrite(c, TRUE))
          /\ WF_vars(ActorPanic(c))
          /\ WF_vars(ActorReadEof(c))
          /\ WF_vars(ActorReadError(c))
          /\ WF_vars(ShutdownSend(c))
          /\ WF_vars(ShutdownJoin(c))

(***************************************************************************)
(* SpecFlood: the relay with two connections. The peer of the first        *)
(* writes one-frame messages; the peer of the second may write the first   *)
(* frame of a fragmented message and then nothing more. Every write to a   *)
(* peer succeeds. FairFlood: the scheduler and the tasks run whenever they *)
(* can. Where the scheduler waits in try_send on the full channel of a     *)
(* task that is inside read_message_from, the only steps left are further  *)
(* frames of the first peer: none of them lets the send complete.          *)
(***************************************************************************)
FloodConns == 1..2

\* what the peer of connection c writes
FloodFrame(c) == Frame(c = 1, Text, None, << 72 >>)

NextFlood ==
    \/ \E r \in RoomNames, c \in FloodConns :
          /\ nenv < MaxFlood
          /\ FreshConn(c)
          /\ handle_new_ws(r, c, c, TRUE)
    \/ Tick
    \/ \E t \in sched.sends : TickSend(t)
    \/ \E c \in FloodConns :
        \/ /\ nenv < MaxFlood
           /\ task[c] = "idle"
           /\ ActorReadFrame(c, FloodFrame(c), TRUE)
        \/ ActorWrite(c, TRUE)

SpecFlood == Init /\ [][NextFlood]_vars

FairFlood ==
    /\ SpecFlood
    /\ WF_vars(Tick)
    /\ WF_vars(\E t \in sched.sends : TickSend(t))
    /\ \A c \in FloodConns : WF_vars(ActorWrite(c, TRUE))

(***************************************************************************)
(* SpecRooms: the registry. Rooms are made by GET /api/gen-room, joined    *)
(* by requests of every shape, and emptied by peers that send a Close      *)
(* frame. The generator gives a name no room has (the first unused one of  *)
(* GenNames stands for all of them) or the name of the first room made;    *)
(* the id of a connection is any of RoomIds, taken or not.                 *)
(***************************************************************************)
GenNames ==
    << "g00001", "g00002", "g00003", "g00004", "g00005", "g00006", "g00007",
       "g00008", "g00009", "g00010", "g00011", "g00012", "g00013", "g00014",
       "g00015", "g00016", "g00017", "g00018", "g00019", "g00020", "g00021" >>

NewNames ==
    { GenNames[1] }
    \cup { GenNames[i] : i \in { j \in 1..Len(GenNames) :
                                   /\ GenNames[j] \notin DOMAIN rooms
                                   /\ \A k \in 1..(j - 1) :
                                         GenNames[k] \in DOMAIN rooms } }

RoomConns == 1..2
RoomIds == 1..2

UpgradeKey == "dGhlIHNhbXBsZSBub25jZQ=="
JoinHeaders ==
    { [h \in {"connection", "upgrade", "sec-websocket-key"} |->
          CASE h = "connection" -> "Upgrade"
            [] h = "upgrade" -> "websocket"
            [] OTHER -> UpgradeKey],
      [h \in {"connection", "upgrade"} |->
          IF h = "connection" THEN "Upgrade" ELSE "WebSocket"],
      [h \in {"connection", "sec-websocket-key"} |->
          IF h = "connection" THEN "Upgrade" ELSE UpgradeKey],
      [h \in {"connection", "upgrade", "sec-websocket-key"} |->
          CASE h = "connection" -> "keep-alive"
            [] h = "upgrade" -> "websocket"
            [] OTHER -> UpgradeKey] }

JoinPaths ==
    { << "/ws", "?", "room", "=", r >> :
        r \in {DefaultRoom, GenNames[1], "nowhere"} }
    \cup { << "/ws" >>,
           << "/ws", "?", "room" >>,
           << "/ws", "?", "room", "=" >>,
           << "/ws", "?", "name", "=", "x", "&", "room", "=", DefaultRoom >> }

JoinRequests ==
    { [headers |-> h, path |-> p] : h \in JoinHeaders, p \in JoinPaths }

RoomMay(n) == nenv + n <= MaxRoomEvents

NextRooms ==
    \/ \E name \in NewNames, w_ok \in BOOLEAN :
          RoomMay(1 + Fault(w_ok)) /\ handle_new_room(name, w_ok)
    \/ \E q \in JoinRequests, c \in RoomConns, id \in RoomIds :
          RoomMay(1) /\ FreshConn(c) /\ handle_ws(q, c, id, TRUE)
    \/ Tick
    \/ \E c \in RoomConns :
        \/ RoomMay(1)
           /\ ActorReadFrame(c, Frame(TRUE, Close, None, << >>), TRUE)
        \/ ActorPanic(c)

SpecRooms == Init /\ [][NextRooms]_vars

(***************************************************************************)
(* SpecCapacity: the registry filled up. Rooms are made by                 *)
(* GET /api/gen-room until the registry refuses; one connection joins a    *)
(* room there is and may leave it with a Close frame.                      *)
(***************************************************************************)
CapacityConns == 1..1

CapacityMay(n) == nenv + n <= MaxCapacityEvents

NextCapacity ==
    \/ \E name \in NewNames :
          CapacityMay(1) /\ handle_new_room(name, TRUE)
    \/ \E r \in {DefaultRoom, GenNames[1]} \cap DOMAIN rooms,
          c \in CapacityConns :
          CapacityMay(1) /\ FreshConn(c) /\ handle_new_ws(r, c, c, TRUE)
    \/ Tick
    \/ \E c \in CapacityConns :
        \/ /\ CapacityMay(1)
           /\ ActorReadFrame(c, Frame(TRUE, Close, None, << >>), TRUE)
        \/ ActorPanic(c)

SpecCapacity == Init /\ [][NextCapacity]_vars

(***************************************************************************)
(* SpecIsolation: the relay over two rooms. It starts when                 *)
(* GET /api/gen-room has made one room beside roomForAll; connections join *)
(* either room; the peer of each sends a one-frame Text message or a Close *)
(* frame. Every write succeeds.                                            *)
(***************************************************************************)
IsolationConns == 1..4

\* what rng.gen() returns for a connection that joins the room r: an id no
\* member of r has. The ids of a room matter only as the keys of its map:
\* the least free one stands for all of them, so that the same ids are in
\* use in both rooms.
IsolationId(r) ==
    CHOOSE i \in IsolationConns :
        /\ i \notin DOMAIN rooms[r].sockets
        /\ \A j \in 1..(i - 1) : j \in DOMAIN rooms[r].sockets

IsolationFrames ==
    { Frame(TRUE, Text, None, << 72 >>),
      Frame(TRUE, Close, None, << >>) }

IsolationMay(n) == nenv + n <= MaxIsolationEvents

\* handle_new_room has inserted RoomData::new() under its first name
InitIsolation ==
    /\ InitWs({})
    /\ rooms = [r \in {DefaultRoom, GenNames[1]} |-> RoomData_new]
    /\ lock = "free"
    /\ req = NoReq
    /\ resp = [status |-> 200, names |-> {GenNames[1]}]
    /\ sched = SchedSleep
    /\ tick = NoTick
    /\ codec = NoCodec

NextIsolation ==
    \/ \E r \in {DefaultRoom, GenNames[1]}, c \in IsolationConns :
          /\ IsolationMay(1)
          /\ r \in DOMAIN rooms
          /\ FreshConn(c)
          /\ handle_new_ws(r, c, IsolationId(r), TRUE)
    \/ Tick
    \/ \E t \in sched.sends : TickSend(t)
    \/ \E c \in IsolationConns :
        \/ \E f \in IsolationFrames :
              /\ IsolationMay(1)
              /\ pushed[c] = << >>
              /\ ActorReadFrame(c, f, TRUE)
        \/ ActorWrite(c, TRUE)

SpecIsolation == InitIsolation /\ [][NextIsolation]_vars

(***************************************************************************)
(* SpecOrder: the relay in one room whose peers send one-frame Text        *)
(* messages. The one byte of a message tells its sender and how many       *)
(* messages the sender sent before it. Every write succeeds.               *)
(***************************************************************************)
OrderConns == 1..3

\* what the peer of connection c writes next
OrderFrame(c) == Frame(TRUE, Text, None, << 32 * c + Len(pushed[c]) >>)

OrderMay(n) == nenv + n <= MaxOrderEvents

NextOrder ==
    \/ \E c \in OrderConns :
          /\ OrderMay(1)
          /\ FreshConn(c)
          /\ handle_new_ws(DefaultRoom, c, c, TRUE)
    \/ Tick
    \/ \E t \in sched.sends : TickSend(t)
    \/ \E c \in OrderConns :
        \/ OrderMay(1) /\ ActorReadFrame(c, OrderFrame(c), TRUE)
        \/ ActorWrite(c, TRUE)

SpecOrder == Init /\ [][NextOrder]_vars

(***************************************************************************)
(* SpecCodec: the codec on its own. Every behaviour takes one job and      *)
(* applies the codec to it.                                                *)
(***************************************************************************)
InitCodec == InitWs({}) /\ InitRelay /\ codec \in CodecJobs

NextCodec ==
    \/ CodecWrite
    \/ CodecParse
    \/ CodecDemask
    \/ \E w_ok \in BOOLEAN : CodecWriteMessage(w_ok)

SpecCodec == InitCodec /\ [][NextCodec]_vars

(***************************************************************************)
(* What the properties below speak of.                                     *)
(***************************************************************************)
Last(q) == q[Len(q)]

\* the payload a frame carries, its masking undone (RFC 6455, 5.3)
Plain(f) ==
    IF f.mask = None THEN f.payload
    ELSE [i \in 1..Len(f.payload) |->
             Xor8(f.payload[i], Unwrap(f.mask)[((i - 1) % 4) + 1])]

IsData(f) == f.opcode \in {Continuation, Text, Binary}

\* the payloads of the data frames of fs, in arrival order
RECURSIVE DataOf(_)
DataOf(fs) ==
    IF fs = << >> THEN << >>
    ELSE (IF IsData(Head(fs)) THEN Plain(Head(fs)) ELSE << >>)
         \o DataOf(Tail(fs))

\* well-formed UTF-8 (Unicode, table 3-7)
In(b, lo, hi) == lo <= b /\ b <= hi
RECURSIVE WellFormed(_)
WellFormed(b) ==
    \/ b = << >>
    \/ /\ Len(b) >= 1
       /\ In(b[1], 0, 127)
       /\ WellFormed(Drop(b, 1))
    \/ /\ Len(b) >= 2
       /\ In(b[1], 194, 223) /\ In(b[2], 128, 191)
       /\ WellFormed(Drop(b, 2))
    \/ /\ Len(b) >= 3
       /\ \/ b[1] = 224 /\ In(b[2], 160, 191)
          \/ (In(b[1], 225, 236) \/ In(b[1], 238, 239)) /\ In(b[2], 128, 191)
          \/ b[1] = 237 /\ In(b[2], 128, 159)
       /\ In(b[3], 128, 191)
       /\ WellFormed(Drop(b, 3))
    \/ /\ Len(b) >= 4
       /\ \/ b[1] = 240 /\ In(b[2], 144, 191)
          \/ In(b[1], 241, 243) /\ In(b[2], 128, 191)
          \/ b[1] = 244 /\ In(b[2], 128, 143)
       /\ In(b[3], 128, 191) /\ In(b[4], 128, 191)
       /\ WellFormed(Drop(b, 4))

\* a fragmented message: a first non-final Text or Binary frame, non-final
\* Continuation frames, a final Continuation frame
Fragmented(fs) ==
    /\ Len(fs) >= 2
    /\ fs[1].opcode \in {Text, Binary}
    /\ ~fs[1].is_final
    /\ \A i \in 2..Len(fs) :
          fs[i].opcode = Continuation /\ (fs[i].is_final <=> i = Len(fs))

\* fs[i] arrives while a fragmented message is in progress
InProgressAt(fs, i) ==
    /\ 2 <= i /\ i <= Len(fs)
    /\ fs[1].opcode \in {Text, Binary}
    /\ \A j \in 1..(i - 1) : IsData(fs[j]) /\ ~fs[j].is_final

\* the message the frames fs carry
MessageOf(fs, data) == IF fs[1].opcode = Text THEN MsgText(data)
                       ELSE MsgBinary(data)

CloseEchoes(c) == SelectSeq(out[c], LAMBDA f : f.opcode = Close)

(***************************************************************************)
(* C5. When the peer closes the stream without a Close frame, the read the *)
(* task makes on the closed stream ends the call: ConnectionClosed is      *)
(* pushed onto the queue and the task terminates.                          *)
(***************************************************************************)
C5_EofTerminates ==
    [][\A c \in Conns :
          ActorReadEof(c) =>
              /\ task'[c] = "done"
              /\ pushed'[c] = Append(pushed[c], Err("ConnectionClosed"))]_vars

(***************************************************************************)
(* C6. When a call of read_message_from that read a Ping in the middle of  *)
(* a fragmented message returns a message, the call went on to the final   *)
(* fragment and the message is the concatenation of all the data           *)
(* fragments, of the type of the first; the Ping was answered by a Pong    *)
(* of the same payload.                                                    *)
(***************************************************************************)
C6_PingInterleaving ==
    \A c \in Conns :
        LET fs == last_call[c].frames
            r == last_call[c].result
        IN  \A i \in 1..Len(fs) :
                (InProgressAt(fs, i) /\ fs[i].opcode = Ping /\ IsSome(r)
                    /\ Unwrap(r).ok)
                => /\ IsData(Last(fs)) /\ Last(fs).is_final
                   /\ Unwrap(r).msg.kind = MessageOf(fs, << >>).kind
                   /\ Unwrap(r).msg.data \in
                         { DataOf(fs), from_utf8_lossy(DataOf(fs)) }
                   /\ \E k \in 1..Len(out[c]) :
                         out[c][k] = Frame(TRUE, Pong, None, Plain(fs[i]))

(***************************************************************************)
(* C7. A fragmented message is returned as one message of the type of its  *)
(* first fragment. A Binary message's payload is the concatenation of the  *)
(* fragments' payloads, demasked, in arrival order. A Text message's       *)
(* payload is that concatenation decoded as UTF-8 with every ill-formed    *)
(* sequence replaced by U+FFFD: it is the concatenation exactly when the   *)
(* concatenation is well-formed UTF-8.                                     *)
(***************************************************************************)
C7_Reassembly ==
    \A c \in Conns :
        LET fs == last_call[c].frames
            data == DataOf(fs)
        IN  Fragmented(fs) =>
                /\ IsSome(last_call[c].result)
                /\ LET r == Unwrap(last_call[c].result)
                   IN  /\ r.ok
                       /\ r.msg.kind = MessageOf(fs, data).kind
                       /\ r.msg.kind = "Binary" => r.msg.data = data
                       /\ r.msg.kind = "Text" =>
                             /\ r.msg.data = from_utf8_lossy(data)
                             /\ r.msg.data = data <=> WellFormed(data)

\* a call returned a Text message of three fragments, masked ones among
\* them
C7_Reassembly_witness ==
    \E c \in Conns :
        LET fs == last_call[c].frames
        IN  /\ Fragmented(fs)
            /\ Len(fs) = 3
            /\ fs[1].opcode = Text
            /\ \E i \in 1..Len(fs) : IsSome(fs[i].mask)
            /\ last_call[c].result =
                  Some(Ok(MsgText(<< 195, 169 >> \o REPLACEMENT)))

\* C7 as the claim states it: the payload is always the concatenation
C7_Reassembly_original ==
    \A c \in Conns :
        LET fs == last_call[c].frames
        IN  Fragmented(fs) =>
                last_call[c].result = Some(Ok(MessageOf(fs, DataOf(fs))))

(***************************************************************************)
(* C8. When a call of read_message_from reads a Close frame, also in the   *)
(* middle of a fragmented message, the task pushes the call's error and    *)
(* nothing else, and terminates. If the echo can be written, exactly one   *)
(* Close frame with the same payload is written and the error is           *)
(* ConnectionClosed; if the write fails (the stream is reset), no Close    *)
(* frame is written and the error is Network.                              *)
(***************************************************************************)
C8_CloseHandshake ==
    \A c \in Conns :
        LET fs == last_call[c].frames
            r == last_call[c].result
        IN  (fs # << >> /\ Last(fs).opcode = Close) =>
                /\ task[c] = "done"
                /\ pushed[c] = last_call[c].before \o r
                /\ IF stream[c] = "reset"
                   THEN /\ r = Some(Err("Network"))
                        /\ CloseEchoes(c) = << >>
                   ELSE /\ r = Some(Err("ConnectionClosed"))
                        /\ CloseEchoes(c) =
                              << Frame(TRUE, Close, None, Plain(Last(fs))) >>

\* a masked Close frame with a payload was read in the middle of a
\* fragmented message and echoed
C8_CloseHandshake_witness ==
    \E c \in Conns :
        LET fs == last_call[c].frames
        IN  /\ Len(fs) >= 2
            /\ InProgressAt(fs, Len(fs))
            /\ Last(fs).opcode = Close
            /\ IsSome(Last(fs).mask)
            /\ CloseEchoes(c) = << Frame(TRUE, Close, None, << 3, 232 >>) >>
            /\ Last(pushed[c]) = Err("ConnectionClosed")

\* C8 as the claim states it: every Close frame read is echoed and reported
\* as ConnectionClosed
C8_CloseHandshake_original ==
    \A c \in Conns :
        LET fs == last_call[c].frames
        IN  (fs # << >> /\ Last(fs).opcode = Close) =>
                /\ last_call[c].result = Some(Err("ConnectionClosed"))
                /\ Len(CloseEchoes(c)) = 1

(***************************************************************************)
(* C10. The queue is FIFO: what was pushed, in the order the calls of      *)
(* read_message_from returned, is what was polled, in the order it was     *)
(* polled, followed by what the queue holds; nothing is lost, duplicated   *)
(* or reordered.                                                           *)
(***************************************************************************)
C10_Fifo ==
    \A c \in Conns :
        /\ pushed[c] = polled[c] \o recv_queue[c]
        /\ IsSome(last_call[c].result) =>
              pushed[c] = last_call[c].before \o last_call[c].result

\* two items were polled while a third waits in the queue
C10_Fifo_witness ==
    \E c \in Conns :
        /\ Len(polled[c]) = 2
        /\ Len(recv_queue[c]) = 1
        /\ polled[c][1] # polled[c][2]
        /\ polled[c][2] # recv_queue[c][1]

(***************************************************************************)
(* C2. A task that ended because a read or a write failed has pushed an    *)
(* error onto its queue, and that error is the queue's last item.          *)
(***************************************************************************)
C2_ErrorIsFinalItem ==
    \A c \in Conns :
        (task[c] = "done" /\ term[c] \in {"read", "send"}) =>
            pushed[c] # << >> /\ ~Last(pushed[c]).ok

(***************************************************************************)
(* C9. A call of shutdown returns, with Ok or with an error, whatever the   *)
(* task was doing when it was called.                                      *)
(***************************************************************************)
C9_ShutdownReturns ==
    \A c \in Conns :
        (handle[c] = "sending") ~> (handle[c] \in {"returned", "failed"})

(***************************************************************************)
(* C4. A tick that has taken the registry's lock releases it.              *)
(***************************************************************************)
C4_TickReleasesLock == (lock = "sched") ~> (lock = "free")

(***************************************************************************)
(* C1. Within a tick, a message collected from a member of a room is put   *)
(* on the channels of the room's other members of that tick and of nobody  *)
(* else, once each: not on the sender's, and not on the channel of a       *)
(* connection whose join waited for the tick to end. By the end of the     *)
(* tick every other member has it on its channel, unless its task has      *)
(* ended (a member the tick removed is one of these).                      *)
(***************************************************************************)
SendPending(r, s, p) ==
    /\ sched.pc = "send"
    /\ sched.room = r
    /\ \E t \in sched.sends :
          rooms[r].sockets[t[1]] = s /\ rooms[r].sockets[t[3]] = p

C1_SnapshotBroadcast ==
    /\ ~tick.dup
    /\ \A e \in tick.enq :
          \E r \in DOMAIN tick.snap :
              /\ << r, e[1], e[2] >> \in tick.collected
              /\ e[3] \in tick.snap[r] \ {e[1]}
    /\ \A k \in tick.collected :
          \A p \in tick.snap[k[1]] \ {k[2]} :
              \/ << k[2], k[3], p >> \in tick.enq
              \/ Closed(p)
              \/ SendPending(k[1], k[2], p)
    /\ \A d \in tick.late :
          /\ \A e \in tick.enq : e[3] # d
          /\ cmd_channel[d] = << >>
          /\ \A i \in 1..Len(out[d]) : ~IsData(out[d][i])

\* the tick is over: it collected a message in a room of three, put it on
\* the channels of the two others, and a fourth connection, whose join
\* waited for the tick to end, is now a member
C1_SnapshotBroadcast_witness ==
    /\ sched.pc = "sleep"
    /\ \E k \in tick.collected :
          /\ Cardinality(tick.snap[k[1]]) = 3
          /\ tick.enq = { << k[2], k[3], p >> : p \in tick.snap[k[1]] \ {k[2]} }
          /\ \E d \in tick.late :
                /\ k[1] \in DOMAIN rooms
                /\ d \in Members(rooms[k[1]])
                /\ d \notin tick.snap[k[1]]

\* C1 as the claim states it: by the end of the tick the message is on the
\* channel of every other member the room had, and on no other channel
C1_SnapshotBroadcast_original ==
    sched.pc = "sleep" =>
        \A k \in tick.collected :
            \A p \in Conns :
                << k[2], k[3], p >> \in tick.enq
                    <=> p \in tick.snap[k[1]] \ {k[2]}

(***************************************************************************)
(* C3. The tick whose poll of a member returns an error removes the member *)
(* from its room. A room all of whose members a tick removed is removed by *)
(* the end of that tick and is in no listing taken after it.               *)
(***************************************************************************)
Emptied(r) ==
    /\ r \in DOMAIN tick.snap
    /\ tick.snap[r] # {}
    /\ tick.snap[r] \subseteq tick.evicted

C3_Eviction ==
    /\ \A c \in Conns :
          (polled[c] # << >> /\ ~Last(polled[c]).ok) =>
              \A r \in DOMAIN rooms : c \notin Members(rooms[r])
    /\ \A r \in RoomNames :
          (sched.pc = "sleep" /\ Emptied(r)) =>
              /\ r \notin DOMAIN rooms
              /\ \A names \in tick.listed : r \notin names

\* a tick polled MessageError::Network from the only member of a room, and
\* a listing was taken after it
C3_Eviction_witness ==
    /\ sched.pc = "sleep"
    /\ tick.listed # {}
    /\ \E r \in RoomNames :
          /\ Emptied(r)
          /\ \E c \in tick.snap[r] : Last(polled[c]) = Err("Network")

\* C3 as the claim states it: a tick removes every member that had an error
\* in its queue when the tick polled it
C3_Eviction_original ==
    \A c \in tick.backlog :
        \A r \in DOMAIN rooms : c \notin Members(rooms[r])

(***************************************************************************)
(* C16. Frame round trip: the bytes write_to makes of a frame, whatever    *)
(* its is_final, its opcode (any of the sixteen values), its mask and its  *)
(* payload, are parsed by try_parse_from into a frame with the same        *)
(* is_final, opcode, mask and payload bytes.                               *)
(***************************************************************************)
C16_RoundTrip ==
    codec.pc = "parsed" =>
        /\ codec.parsed.ok
        /\ codec.parsed.frame.is_final = codec.frame.is_final
        /\ codec.parsed.frame.opcode = codec.frame.opcode
        /\ codec.parsed.frame.mask = codec.frame.mask
        /\ codec.parsed.frame.payload = codec.frame.payload

\* a masked frame of 32768 payload bytes, which takes the 8-byte length,
\* came back as it was
C16_RoundTrip_witness ==
    /\ codec.pc = "parsed"
    /\ Len(codec.frame.payload) = 32768
    /\ codec.frame.mask = Some(KEY)
    /\ codec.parsed = [ok |-> TRUE, frame |-> codec.frame]

(***************************************************************************)
(* C17. Length encoding: write_to gives a payload of fewer than 126 bytes  *)
(* the 1-byte literal length, a payload of 126 to 65535 bytes the selector *)
(* 126 and the 2-byte big-endian length, a payload of 65536 bytes or more  *)
(* the selector 127 and the 8-byte big-endian length; try_parse_from       *)
(* recovers the payload's length from the bytes.                           *)
(***************************************************************************)
C17_LengthEncoding ==
    codec.pc \in {"bytes", "parsed"} =>
        LET n == Len(codec.frame.payload)
            b == codec.bytes
            sel == b[2] % 128
        IN  /\ n < 126 => sel = n
            /\ (126 <= n /\ n <= 65535) =>
                  sel = 126 /\ SubSeq(b, 3, 4) = << n \div 256, n % 256 >>
            /\ n >= 65536 =>
                  sel = 127 /\ FromBeBytes(SubSeq(b, 3, 10)) = n
            /\ codec.pc = "parsed" =>
                  codec.parsed.ok /\ Len(codec.parsed.frame.payload) = n

(***************************************************************************)
(* C18. Demask involution: demask XORs payload byte i (from 0) with        *)
(* mask[i mod 4] and keeps the length; applied twice with the same key it  *)
(* gives the bytes back. The key and the bytes of tests::test_demask give  *)
(* "Hello".                                                                *)
(***************************************************************************)
C18_DemaskInvolution ==
    /\ codec.pc \in {"once", "twice"} => Len(codec.data) = Len(codec.input)
    /\ codec.pc = "once" =>
          /\ \A i \in 1..Len(codec.input) :
                codec.data[i] =
                    Xor8(codec.input[i], codec.key[((i - 1) % 4) + 1])
          /\ (codec.key = KEY /\ codec.input = << 127, 159, 77, 81, 88 >>)
                => codec.data = << 72, 101, 108, 108, 111 >>
    /\ codec.pc = "twice" => codec.data = codec.input

\* nine bytes were demasked twice with a key of four different bytes
C18_DemaskInvolution_witness ==
    /\ codec.pc = "twice"
    /\ codec.key = << 255, 1, 128, 77 >>
    /\ Len(codec.input) = 9
    /\ codec.data = codec.input

(***************************************************************************)
(* C20. Outbound write: a message of n > 0 payload bytes is written as     *)
(* ceil(n / 1024) frames; the first has the message's opcode (Text or      *)
(* Binary), the later ones Continuation; only the last is final; every     *)
(* frame but the last has 1024 payload bytes; the payloads, in order, make *)
(* up the message's payload. For n = 0 nothing is written and the write    *)
(* reports success.                                                        *)
(***************************************************************************)
RECURSIVE PayloadsOf(_)
PayloadsOf(fs) ==
    IF fs = << >> THEN << >> ELSE Head(fs).payload \o PayloadsOf(Tail(fs))

C20_OutboundWrite ==
    codec.pc = "written" =>
        LET n == Len(codec.msg.data)
            fs == codec.frames
        IN  /\ n = 0 => codec.ok /\ fs = << >>
            /\ (n > 0 /\ codec.ok) =>
                  /\ Len(fs) = (n + 1023) \div 1024
                  /\ \A i \in 1..Len(fs) :
                        /\ fs[i].opcode =
                              IF i > 1 THEN Continuation
                              ELSE IF codec.msg.kind = "Text" THEN Text
                              ELSE Binary
                        /\ fs[i].is_final <=> i = Len(fs)
                        /\ i < Len(fs) => Len(fs[i].payload) = 1024
                  /\ PayloadsOf(fs) = codec.msg.data

\* a Text message of 2049 bytes went out as three frames
C20_OutboundWrite_witness ==
    /\ codec.pc = "written"
    /\ codec.ok
    /\ codec.msg.kind = "Text"
    /\ Len(codec.msg.data) = 2049
    /\ Len(codec.frames) = 3
    /\ Len(codec.frames[3].payload) = 1

(***************************************************************************)
(* C11. A call of try_send made after the task has ended (its command      *)
(* channel is closed) fails and hands the message back; no such call       *)
(* reports success.                                                        *)
(***************************************************************************)
C11_SendAfterTermination ==
    \A c \in Conns :
        \A i \in 1..Len(sent[c]) :
            sent[c][i].closed =>
                /\ ~sent[c][i].ok
                /\ sent[c][i].back = Some(sent[c][i].msg)

\* the task ended on the peer's Close frame, and a try_send made after
\* that came back with its message
C11_SendAfterTermination_witness ==
    \E c \in Conns :
        /\ task[c] = "done"
        /\ term[c] = "read"
        /\ sent[c] # << >>
        /\ Last(sent[c]).closed
        /\ ~Last(sent[c]).ok
        /\ Last(sent[c]).back = Some(MsgText(<< 72 >>))
        /\ cmd_channel[c] = << >>

(***************************************************************************)
(* C14. The room made at startup, "roomForAll", is never deletable and     *)
(* stays in the registry, whatever joins and evictions happen.             *)
(***************************************************************************)
C14_DefaultRoomKept ==
    /\ DefaultRoom \in DOMAIN rooms
    /\ ~rooms[DefaultRoom].is_deletable

(***************************************************************************)
(* C12. Capacity: the registry never holds more than 20 rooms, and a       *)
(* request for a new room that finds 20 rooms is answered with the         *)
(* capacity failure (403) and leaves the registry as it is: the names, the *)
(* members and the deletable flags.                                        *)
(***************************************************************************)
C12_Capacity ==
    /\ [](Cardinality(DOMAIN rooms) <= 20)
    /\ [][\A name \in NewNames :
             (handle_new_room(name, TRUE) /\ Cardinality(DOMAIN rooms) >= 20)
                 => /\ resp' = [status |-> 403, names |-> {}]
                    /\ rooms' = rooms]_vars

\* the registry holds 20 rooms, one of them with a member, and the last
\* request for a room was refused
C12_Capacity_witness ==
    /\ Cardinality(DOMAIN rooms) = 20
    /\ resp.status = 403
    /\ \E r \in DOMAIN rooms : rooms[r].sockets # EmptyMap

(***************************************************************************)
(* C13. A room leaves the registry only when it has no members and is      *)
(* deletable: no step takes a room away, or puts another room in its       *)
(* place, while the room has members that the running tick did not evict   *)
(* or while it is not deletable. (is_deletable is never reset: a room of   *)
(* the same name that is not deletable is another room.)                   *)
(***************************************************************************)
Vanishes(r) ==
    \/ r \notin DOMAIN rooms'
    \/ r \in DOMAIN rooms' /\ rooms[r].is_deletable /\ ~rooms'[r].is_deletable

C13_RemovalOnlyWhenEmpty ==
    [][\A r \in DOMAIN rooms :
          Vanishes(r) =>
              /\ rooms[r].is_deletable
              /\ Members(rooms[r]) \subseteq tick'.evicted]_vars

(***************************************************************************)
(* C15. A join request that cannot be upgraded (its headers are not those  *)
(* of a WebSocket upgrade, or its path has no room parameter) is answered  *)
(* 400, and one that names a room the registry does not hold is answered   *)
(* 404; in both cases no WebSocket is made of the stream and the registry  *)
(* is left as it is.                                                       *)
(***************************************************************************)
ValidUpgrade(q) ==
    /\ {"connection", "upgrade", "sec-websocket-key"} \subseteq DOMAIN q.headers
    /\ q.headers["connection"] \in {"upgrade", "Upgrade", "UPGRADE"}
    /\ q.headers["upgrade"] \in {"websocket", "WebSocket", "WEBSOCKET"}

\* the path has the parameter room=r (r is "" when nothing follows the =)
NamesRoom(q, r) ==
    \E i \in 2..(Len(q.path) - 1) :
        /\ q.path[i - 1] \in {"?", "&"}
        /\ q.path[i] = "room"
        /\ q.path[i + 1] = "="
        /\ IF i + 1 = Len(q.path) THEN r = "" ELSE q.path[i + 2] = r

JoinTargets == {DefaultRoom, GenNames[1], "nowhere", ""}

Untouched == rooms' = rooms /\ task' = task /\ handle' = handle

C15_FailedJoin ==
    [][\A q \in JoinRequests, c \in RoomConns :
          (FreshConn(c) /\ \E id \in RoomIds : handle_ws(q, c, id, TRUE)) =>
              /\ (~ValidUpgrade(q) \/ \A r \in JoinTargets : ~NamesRoom(q, r))
                    => resp'.status = 400 /\ Untouched
              /\ (ValidUpgrade(q)
                     /\ \E r \in JoinTargets \ DOMAIN rooms : NamesRoom(q, r))
                    => resp'.status = 404 /\ Untouched]_vars

\* a request that could not be upgraded and then a request for a room
\* that does not exist were answered, the latter 404: the registry is as
\* it was at startup and there is no WebSocket
C15_FailedJoin_witness ==
    /\ resp.status = 404
    /\ nenv >= 2
    /\ rooms = [r \in {DefaultRoom} |-> RoomData_new]
    /\ \A c \in Conns : task[c] = "none" /\ handle[c] = "none"

(***************************************************************************)
(* C19. A successful join puts the new connection into the member map of   *)
(* the room it names: the room has one member more, every member it had    *)
(* is still there under its id, the room is deletable, and every other     *)
(* room is as it was.                                                      *)
(***************************************************************************)
C19_JoinAddsOne ==
    [][\A r \in DOMAIN rooms, c \in Conns :
          (/\ task[c] = "none"
           /\ task'[c] = "idle"
           /\ r \in DOMAIN rooms'
           /\ c \in Members(rooms'[r]))
          => /\ Cardinality(DOMAIN rooms'[r].sockets)
                   = Cardinality(DOMAIN rooms[r].sockets) + 1
             /\ \A id \in DOMAIN rooms[r].sockets :
                   /\ id \in DOMAIN rooms'[r].sockets
                   /\ rooms'[r].sockets[id] = rooms[r].sockets[id]
             /\ rooms'[r].is_deletable
             /\ DOMAIN rooms' = DOMAIN rooms
             /\ \A x \in DOMAIN rooms \ {r} : rooms'[x] = rooms[x]]_vars

(***************************************************************************)
(* C23. A short read is a parse error: when the stream ends before all the *)
(* bytes of a frame (its 2 header bytes, its extended length, its mask     *)
(* key, its payload) have arrived, try_parse_from returns an error and no  *)
(* frame.                                                                  *)
(***************************************************************************)
C23_ShortReadFails ==
    (codec.pc = "cut" /\ Len(codec.bytes) < Len(write_to(codec.frame)))
        => ~codec.parsed.ok

(***************************************************************************)
(* C26. A room creation that is answered with 200 adds exactly one room:   *)
(* the new room has no members and is not deletable, every room there was  *)
(* is still there with its members and its flag, and the number of rooms   *)
(* is one more than before.                                                *)
(***************************************************************************)
C26_CreationAddsOne ==
    [][\A name \in NewNames :
          (handle_new_room(name, TRUE) /\ resp'.status = 200) =>
              /\ Cardinality(DOMAIN rooms') = Cardinality(DOMAIN rooms) + 1
              /\ rooms'[name] = RoomData_new
              /\ \A r \in DOMAIN rooms :
                    r \in DOMAIN rooms' /\ rooms'[r] = rooms[r]]_vars

(***************************************************************************)
(* C27. Control frames never become messages: a call of read_message_from  *)
(* that returns a message has read a data frame (Text, Binary or           *)
(* Continuation), and the message's payload is that of its data frames. A  *)
(* Ping or a Pong that arrives outside a fragmented message puts no        *)
(* message on the queue.                                                   *)
(***************************************************************************)
C27_ControlFramesNoMessage ==
    \A c \in Conns :
        LET fs == last_call[c].frames
            r == last_call[c].result
        IN  (IsSome(r) /\ Unwrap(r).ok) =>
                /\ \E i \in 1..Len(fs) : IsData(fs[i])
                /\ Unwrap(r).msg.data \in
                      { DataOf(fs), from_utf8_lossy(DataOf(fs)) }

(***************************************************************************)
(* C25. Room isolation: whatever a tick puts on a channel is a message it  *)
(* collected from a member of one room, and the channel is that of another *)
(* member of the same room: not the sender's, not that of a member of      *)
(* another room, and not that of a member the tick removed.                *)
(***************************************************************************)
C25_RoomIsolation ==
    \A e \in tick.enq :
        \E r \in DOMAIN tick.snap :
            /\ << r, e[1], e[2] >> \in tick.collected
            /\ e[3] \in tick.snap[r]
            /\ e[3] # e[1]
            /\ e[3] \notin tick.evicted
            /\ \A x \in DOMAIN tick.snap \ {r} : e[3] \notin tick.snap[x]

\* a tick found three members in one room and one in another, with the
\* same id as the sender; it removed one of the three and put the message
\* of the second on the channel of the third, and of nobody else
C25_RoomIsolation_witness ==
    /\ sched.pc = "sleep"
    /\ \E r, x \in DOMAIN tick.snap :
          /\ r # x
          /\ Cardinality(tick.snap[r]) = 3
          /\ tick.snap[x] # {}
          /\ tick.snap[r] \cap tick.evicted # {}
          /\ \E k \in tick.collected :
                /\ k[1] = r
                /\ Cardinality(tick.enq) = 1
                /\ \A e \in tick.enq : e[1] = k[2] /\ e[3] \in tick.snap[r]
                /\ x \in DOMAIN rooms
                /\ \E i \in DOMAIN rooms[r].sockets \cap DOMAIN rooms[x].sockets :
                      rooms[r].sockets[i] = k[2]

(***************************************************************************)
(* C22. A try_send that fails during the fan-out of a message (the peer's  *)
(* task has ended) is skipped: every other member of the room still gets   *)
(* the message on its channel, unless its own try_send fails or the tick   *)
(* removed it; the step leaves the scheduler in the send loop, in a later  *)
(* room, or at the end of the tick with every room visited and the lock    *)
(* released, so that the next tick can start.                              *)
(***************************************************************************)
Range(q) == { q[i] : i \in 1..Len(q) }

C22_SendFailureSkipped ==
    /\ [](\A f \in tick.failed :
             /\ Closed(f[3])
             /\ \E r \in DOMAIN tick.snap :
                   /\ << r, f[1], f[2] >> \in tick.collected
                   /\ \A q \in tick.snap[r] \ ({f[1]} \cup tick.evicted) :
                         \/ << f[1], f[2], q >> \in tick.enq
                         \/ << f[1], f[2], q >> \in tick.failed
                         \/ SendPending(r, f[1], q))
    /\ [][tick'.failed # tick.failed /\ tick'.failed # {} =>
             /\ sched.pc = "send"
             /\ cmd_channel' = cmd_channel
             /\ IF sched'.pc = "sleep"
                THEN /\ lock' = "free"
                     /\ DOMAIN tick'.snap = DOMAIN rooms
                ELSE /\ sched'.pc = "send"
                     /\ DOMAIN tick'.snap \cup Range(sched'.order)
                            = DOMAIN rooms]_vars

\* a tick is over in which the try_send to one member of a room failed and
\* the same message reached another member of the room; the tick visited
\* another room with a member too, and the member whose channel is closed
\* is still in its room
C22_SendFailureSkipped_witness ==
    /\ sched.pc = "sleep"
    /\ lock = "free"
    /\ \E f \in tick.failed :
          \E r, x \in DOMAIN tick.snap :
              /\ r # x
              /\ tick.snap[x] # {}
              /\ f[3] \in tick.snap[r]
              /\ r \in DOMAIN rooms /\ f[3] \in Members(rooms[r])
              /\ \E q \in tick.snap[r] \ {f[1], f[3]} :
                    << f[1], f[2], q >> \in tick.enq

(***************************************************************************)
(* C24. Dropping the WebSocket without shutdown does not end its task: a   *)
(* task whose WebSocket was dropped ends only when a read or a write on    *)
(* its stream fails.                                                       *)
(***************************************************************************)
C24_DroppedTaskKeepsRunning ==
    \A c \in Conns :
        (handle[c] = "dropped" /\ task[c] = "done")
            => term[c] \in {"read", "send"}

(***************************************************************************)
(* C21. Order is kept from a sender to each of its peers: the messages of  *)
(* a sender are queued in the order their frames arrived, and what a peer  *)
(* was sent of them (the messages written to its stream, then the ones     *)
(* still on its channel) is in that order, none of them twice.             *)
(***************************************************************************)
SenderOf(b) == b \div 32
NumberOf(b) == b % 32

\* the messages written to the stream of p, then the ones on its channel
SentTo(p) ==
    [i \in 1..Len(out[p]) |-> out[p][i].payload[1]]
    \o [i \in 1..Len(cmd_channel[p]) |-> cmd_channel[p][i].msg.data[1]]

\* how many of the messages that p was sent are written
WrittenFrom(p, s) ==
    Cardinality({ i \in 1..Len(out[p]) : SenderOf(out[p][i].payload[1]) = s })

C21_OrderPreserved ==
    /\ \A s \in Conns :
          \A k \in 1..Len(pushed[s]) :
              pushed[s][k] = Ok(MsgText(<< 32 * s + (k - 1) >>))
    /\ \A p \in Conns :
          \A i, j \in 1..Len(SentTo(p)) :
              /\ SenderOf(SentTo(p)[i]) # p
              /\ (i < j /\ SenderOf(SentTo(p)[i]) = SenderOf(SentTo(p)[j]))
                    => NumberOf(SentTo(p)[i]) < NumberOf(SentTo(p)[j])

\* two peers of a sender are sent its first three messages: one has
\* written two of them and has the third on its channel, the other has
\* written one
C21_OrderPreserved_witness ==
    \E s, p, q \in Conns :
        /\ s # p /\ s # q /\ p # q
        /\ Len(pushed[s]) = 3
        /\ WrittenFrom(p, s) = 2
        /\ Len(cmd_channel[p]) = 1
        /\ WrittenFrom(q, s) = 1

=============================================================================
